---- MODULE Spec2Model ----
(***************************************************************************)
(* Model of src/index.js: an Express service over two PostgreSQL tables,   *)
(* users(device_id UNIQUE, email, password) and sensor_data(id, device_id, *)
(* temperature, humidity, air_quality, lpg_level, timestamp).  One action  *)
(* per route handler; a handler is one atomic request/response cycle.      *)
(***************************************************************************)
EXTENDS Integers, Sequences, FiniteSets, TLC

VARIABLES
    users,        \* rows of table users
    sensor_data,  \* rows of table sensor_data, in insertion order
    now,          \* the store's clock, read by NOW()
    proc,         \* the node process: "up" or "crashed"
    req,          \* the request handled last
    res,          \* the response to it (status 0: no response was sent)
    logged        \* what handling it wrote with console.error

vars == <<users, sensor_data, now, proc, req, res, logged>>

----------------------------------------------------------------------------
(* Bounds of the model.                                                     *)

\* number of distinct salts bcrypt's generator may draw
NumSalts == 2

\* number of sensor_data rows the model lets the table hold
MaxReadings == 2

----------------------------------------------------------------------------
(* JavaScript / JSON values.  A string is a sequence of characters.         *)

Undefined == [type |-> "undefined"]
Null == [type |-> "null"]
Str(s) == [type |-> "string", str |-> s]
Num(n) == [type |-> "number", num |-> n]

\* JavaScript truthiness, as `!x` tests it
Truthy(v) ==
    CASE v.type = "string" -> v.str # <<>>
      [] v.type = "number" -> v.num # 0
      [] OTHER -> FALSE

\* node-postgres sends an undefined parameter as NULL
ToParam(v) == IF v.type = "undefined" THEN Null ELSE v

\* SQL `a = b`: never true when either side is NULL
SqlEq(a, b) == a.type # "null" /\ b.type # "null" /\ a = b

Min(a, b) == IF a < b THEN a ELSE b

----------------------------------------------------------------------------
(* bcryptjs.  hash(s, 10) draws a fresh salt and returns the hash string;   *)
(* compare(s, hash) hashes s again with the salt inside hash.  Both reject  *)
(* a non-string s with Error("Illegal arguments: ...").  The key schedule   *)
(* reads at most the first 72 bytes of s.  The digest is a symbolic term.   *)

BcryptRounds == 10
BcryptMaxBytes == 72

Salts == 1..NumSalts

BcryptKey(chars) == SubSeq(chars, 1, Min(Len(chars), BcryptMaxBytes))

BcryptHash(s, salt) ==
    [type |-> "string",
     hash |-> [rounds |-> BcryptRounds, salt |-> salt, digest |-> BcryptKey(s.str)]]

BcryptAccepts(s) == s.type = "string"

\* the message of the Error a non-string argument is rejected with
BcryptError(s) ==
    IF s.type = "number" THEN "Illegal arguments: number" ELSE "Illegal arguments: undefined"

BcryptCompare(s, stored) == BcryptHash(s, stored.hash.salt) = stored

----------------------------------------------------------------------------
(* Inputs.                                                                  *)

Repeat(c, n) == [i \in 1..n |-> c]

Pw == <<"p", "w">>
LongA == Repeat("a", BcryptMaxBytes) \o <<"x">>
LongB == Repeat("a", BcryptMaxBytes) \o <<"y">>

DeviceInputs == {Undefined, Str(<<>>), Str(<<"d", "1">>), Str(<<"d", "2">>)}
EmailInputs == {Undefined, Str(<<"e", "1">>), Str(<<"e", "2">>)}
PasswordInputs == {Undefined, Str(<<>>), Num(123), Str(Pw), Str(LongA), Str(LongB)}

\* a store call succeeds (NoError) or throws an error carrying a message
NoError == "none"
StoreErrors == {"ECONNREFUSED"}
StoreOutcomes == {NoError} \cup StoreErrors

\* An async handler whose promise rejects outside its try block: Express 4
\* leaves the rejection unhandled (node >= 15 exits, older node only warns
\* and the request never gets a response); Express 5 hands it to its own
\* default error handler.
UnhandledOutcomes == {"crash", "hang", "framework"}

NoRequest == [op |-> "none"]
NoLog == <<>>

Response(op, status, body) == [op |-> op, status |-> status, body |-> body]
NoResponse(op) == Response(op, 0, [sent |-> FALSE])

\* `const { password: _, ...userSafeData } = row`
UserSafeData(row) == [device_id |-> row.device_id, email |-> row.email]

----------------------------------------------------------------------------
(* What the three outcomes of an unhandled rejection leave behind.          *)

Unhandled(op, outcome, err) ==
    /\ proc' = IF outcome = "crash" THEN "crashed" ELSE "up"
    /\ res' = IF outcome = "framework"
                THEN Response(op, 500, [page |-> "express default error handler"])
                ELSE NoResponse(op)
    /\ logged' = IF outcome = "hang" THEN <<"UnhandledPromiseRejectionWarning", err>>
                 ELSE IF outcome = "crash" THEN <<"uncaught", err>>
                 ELSE <<"express", err>>

----------------------------------------------------------------------------
(* PUT /api/signup                                                          *)

\* UPDATE users SET email = $1, password = $2 WHERE device_id = $3
UpdateUsers(rows, email, hashed, device_id) ==
    {IF SqlEq(r.device_id, device_id)
        THEN [r EXCEPT !.email = email, !.password = hashed]
        ELSE r : r \in rows}

Matching(rows, device_id) == {r \in rows : SqlEq(r.device_id, device_id)}

Signup(body) ==
    /\ proc = "up"
    /\ req' = [op |-> "signup", body |-> body]
    /\ UNCHANGED <<sensor_data, now>>
    /\ IF ~Truthy(body.device_id)
         THEN /\ res' = Response("signup", 400, [error |-> "Device ID is required"])
              /\ logged' = NoLog
              /\ UNCHANGED <<users, proc>>
         ELSE IF ~BcryptAccepts(body.password)
         THEN /\ \E outcome \in UnhandledOutcomes :
                    Unhandled("signup", outcome, BcryptError(body.password))
              /\ UNCHANGED users
         ELSE \E db \in StoreOutcomes :
              IF db # NoError
              THEN /\ res' = Response("signup", 500, [error |-> "Error updating user"])
                   /\ logged' = <<"Signup update error:", db>>
                   /\ UNCHANGED <<users, proc>>
              ELSE IF Matching(users, body.device_id) = {}
              THEN /\ res' = Response("signup", 404, [error |-> "Device ID not found"])
                   /\ logged' = NoLog
                   /\ UNCHANGED <<users, proc>>
              ELSE /\ \E salt \in Salts :
                         users' = UpdateUsers(users, ToParam(body.email),
                                              BcryptHash(body.password, salt),
                                              body.device_id)
                   /\ \E row \in Matching(users', body.device_id) :
                         res' = Response("signup", 200,
                                         [message |-> "User updated successfully",
                                          user |-> UserSafeData(row)])
                   /\ logged' = NoLog
                   /\ UNCHANGED proc

----------------------------------------------------------------------------
(* POST /api/signup/admin                                                   *)

\* INSERT INTO users ... ON CONFLICT (device_id) DO UPDATE SET email, password
InsertAlways(rows, device_id, email, hashed) ==
    rows \cup {[device_id |-> device_id, email |-> email, password |-> hashed]}

UpsertUser(rows, device_id, email, hashed) ==
    IF Matching(rows, device_id) # {}
      THEN UpdateUsers(rows, email, hashed, device_id)
      ELSE rows \cup {[device_id |-> device_id, email |-> email, password |-> hashed]}

Admin(body) ==
    /\ proc = "up"
    /\ req' = [op |-> "admin", body |-> body]
    /\ UNCHANGED <<sensor_data, now>>
    /\ IF ~Truthy(body.device_id)
         THEN /\ res' = Response("admin", 400, [error |-> "Device ID is required"])
              /\ logged' = NoLog
              /\ UNCHANGED <<users, proc>>
         ELSE IF ~BcryptAccepts(body.password)
         THEN /\ \E outcome \in UnhandledOutcomes :
                    Unhandled("admin", outcome, BcryptError(body.password))
              /\ UNCHANGED users
         ELSE \E db \in StoreOutcomes :
              IF db # NoError
              THEN /\ res' = Response("admin", 500, [error |-> "Error processing signup"])
                   /\ logged' = <<"Signup error:", db>>
                   /\ UNCHANGED <<users, proc>>
              ELSE /\ \E salt \in Salts :
                         users' = UpsertUser(users, body.device_id, ToParam(body.email),
                                             BcryptHash(body.password, salt))
                   /\ \E row \in Matching(users', body.device_id) :
                         res' = Response("admin", 200,
                                         [message |-> "User created/updated successfully",
                                          user |-> UserSafeData(row)])
                   /\ logged' = NoLog
                   /\ UNCHANGED proc

----------------------------------------------------------------------------
(* POST /api/login                                                          *)

\* SELECT * FROM users WHERE email = $1
UsersByEmail(rows, email) == {r \in rows : SqlEq(r.email, ToParam(email))}

InvalidCredentials == Response("login", 401, [message |-> "Invalid credentials"])

LoginError(err) == Response("login", 500, [message |-> "Server error", error |-> err])

\* the handler's response when the query returned `rows` with `first` as
\* rows[0] (the query has no ORDER BY: any matching row may come first)
LoginWith(rows, first, body, db) ==
    IF ~Truthy(body.email) \/ ~Truthy(body.password)
      THEN Response("login", 400, [message |-> "Missing email or password"])
    ELSE IF db # NoError
      THEN LoginError(db)
    ELSE IF rows = {}
      THEN InvalidCredentials
    ELSE IF ~BcryptAccepts(body.password)
      THEN LoginError(BcryptError(body.password))
    ELSE IF ~BcryptCompare(body.password, first.password)
      THEN InvalidCredentials
    ELSE Response("login", 200,
                  [message |-> "Login successful", device_id |-> first.device_id])

\* every response the handler can give in a store state
LoginResponses(rows, body, db) ==
    LET found == UsersByEmail(rows, body.email)
    IN  IF found = {}
          THEN {LoginWith({}, Null, body, db)}
          ELSE {LoginWith(found, first, body, db) : first \in found}

Login(body) ==
    /\ proc = "up"
    /\ req' = [op |-> "login", body |-> body]
    /\ \E db \in StoreOutcomes : \E r \in LoginResponses(users, body, db) :
          /\ res' = r
          /\ logged' = IF r.status = 500 THEN <<"Server Error:", r.body.error>> ELSE NoLog
    /\ UNCHANGED <<users, sensor_data, now, proc>>

----------------------------------------------------------------------------
(* JavaScript Date.  A Date is a count of milliseconds since the epoch,     *)
(* held here as [day, ms]: whole days since 1970-01-01 and milliseconds     *)
(* into that day (the count is day * MsPerDay + ms, which exceeds the       *)
(* checker's integers).  new Date("YYYY-MM-DD") is midnight UTC of that     *)
(* civil date; an unparsable string gives an Invalid Date, whose            *)
(* toISOString() throws.  Timestamps are kept to the millisecond.           *)

MsPerDay == 86400000
MsPerHour == 3600000
MsPerMinute == 60000
MsPerSecond == 1000

\* days since 1970-01-01 of a civil date (proleptic Gregorian calendar)
DaysFromCivil(date) ==
    LET y == IF date.m <= 2 THEN date.y - 1 ELSE date.y
        era == y \div 400
        yoe == y - era * 400
        mp == IF date.m > 2 THEN date.m - 3 ELSE date.m + 9
        doy == (153 * mp + 2) \div 5 + date.d - 1
        doe == yoe * 365 + yoe \div 4 - yoe \div 100 + doy
    IN  era * 146097 + doe - 719468

\* the civil date of a day number
CivilFromDays(days) ==
    LET z == days + 719468
        era == z \div 146097
        doe == z - era * 146097
        yoe == (doe - doe \div 1460 + doe \div 36524 - doe \div 146096) \div 365
        doy == doe - (365 * yoe + yoe \div 4 - yoe \div 100)
        mp == (5 * doy + 2) \div 153
        d == doy - (153 * mp + 2) \div 5 + 1
        m == IF mp < 10 THEN mp + 3 ELSE mp - 9
    IN  [y |-> IF m <= 2 THEN yoe + era * 400 + 1 ELSE yoe + era * 400, m |-> m, d |-> d]

InvalidDate == [valid |-> FALSE]

\* new Date(date) for a query-string value
NewDate(v) ==
    IF v.type = "date"
      THEN [valid |-> TRUE, day |-> DaysFromCivil(v.date), ms |-> 0]
      ELSE InvalidDate

\* Date.prototype.setUTCHours(h, mi, sec, ms); an Invalid Date stays invalid
SetUTCHours(date, h, mi, sec, ms) ==
    IF ~date.valid THEN date
    ELSE [date EXCEPT !.ms = h * MsPerHour + mi * MsPerMinute + sec * MsPerSecond + ms]

\* Date.prototype.toISOString(): the UTC fields of a valid Date
ToISOString(date) ==
    [date |-> CivilFromDays(date.day),
     h |-> date.ms \div MsPerHour,
     mi |-> (date.ms % MsPerHour) \div MsPerMinute,
     sec |-> (date.ms % MsPerMinute) \div MsPerSecond,
     ms |-> date.ms % MsPerSecond]

\* the store reading an ISO-8601 UTC timestamp parameter
ParseTimestamp(iso) ==
    [day |-> DaysFromCivil(iso.date),
     ms |-> iso.h * MsPerHour + iso.mi * MsPerMinute + iso.sec * MsPerSecond + iso.ms]

\* the store's order on timestamps
TsLeq(a, b) == a.day < b.day \/ (a.day = b.day /\ a.ms <= b.ms)
TsLt(a, b) == TsLeq(a, b) /\ a # b

----------------------------------------------------------------------------
(* Inputs of the sensor routes.                                             *)

DateOf(y, m, d) == [type |-> "date", date |-> [y |-> y, m |-> m, d |-> d]]
Jan1 == DateOf(2024, 1, 1)
Jan2 == DateOf(2024, 1, 2)
DateInputs == {Undefined, Str(<<"a", "b", "c">>), Jan1, Jan2}

Instant(v, ms) == [day |-> DaysFromCivil(v.date), ms |-> ms]
Dec31 == DateOf(2023, 12, 31)

\* the instants the store's clock passes through: the last millisecond of
\* 2023-12-31, the first and the last of 2024-01-01, the first of 2024-01-02
Instants ==
    {Instant(Dec31, MsPerDay - 1), Instant(Jan1, 0),
     Instant(Jan1, MsPerDay - 1), Instant(Jan2, 0)}

PathDevices == {Str(<<"d", "1">>), Str(<<"d", "2">>)}

Absent(body) ==
    {f \in {"temperature", "humidity", "air_quality", "lpg_level"} : body[f] = Undefined}

IngestBodies ==
    {b \in [device_id : DeviceInputs,
            temperature : {Undefined, Num(0), Num(5)},
            humidity : {Undefined, Num(0)},
            air_quality : {Undefined, Num(0)},
            lpg_level : {Undefined, Num(0)}] : Cardinality(Absent(b)) <= 1}

----------------------------------------------------------------------------
(* The store's clock.                                                       *)

Tick ==
    /\ proc = "up"
    /\ \E t \in Instants : TsLt(now, t) /\ now' = t
    /\ UNCHANGED <<users, sensor_data, proc, req, res, logged>>

----------------------------------------------------------------------------
(* POST /api/data                                                           *)

\* INSERT INTO sensor_data (...) VALUES ($1, $2, $3, $4, $5, NOW()) RETURNING *
NewReading(body, t) ==
    [device_id |-> body.device_id, temperature |-> body.temperature,
     humidity |-> body.humidity, air_quality |-> body.air_quality,
     lpg_level |-> body.lpg_level, timestamp |-> t]

\* the check written with `!x`, which takes 0 for a missing value
IngestValidTruthy(body) ==
    /\ Truthy(body.device_id)
    /\ Truthy(body.temperature)
    /\ Truthy(body.humidity)
    /\ Truthy(body.air_quality)
    /\ Truthy(body.lpg_level)

IngestValid(body) ==
    /\ Truthy(body.device_id)
    /\ body.temperature # Undefined
    /\ body.humidity # Undefined
    /\ body.air_quality # Undefined
    /\ body.lpg_level # Undefined

Ingest(body) ==
    /\ proc = "up"
    /\ req' = [op |-> "ingest", body |-> body]
    /\ UNCHANGED <<users, now, proc>>
    /\ IF ~IngestValid(body)
         THEN /\ res' = Response("ingest", 400, [error |-> "Missing required fields"])
              /\ logged' = NoLog
              /\ UNCHANGED sensor_data
         ELSE \E db \in StoreOutcomes :
              IF db # NoError
              THEN /\ res' = Response("ingest", 500, [error |-> "Failed to store data"])
                   /\ logged' = <<"Database error:", db>>
                   /\ UNCHANGED sensor_data
              ELSE /\ Len(sensor_data) < MaxReadings
                   /\ sensor_data' = Append(sensor_data, NewReading(body, now))
                   /\ res' = Response("ingest", 201,
                                      [message |-> "Data stored successfully",
                                       data |-> NewReading(body, now)])
                   /\ logged' = NoLog

----------------------------------------------------------------------------
(* Queries on sensor_data.  A result is a sequence of row positions.        *)

\* WHERE device_id = $1
DeviceRows(rows, device_id) ==
    {i \in 1..Len(rows) : SqlEq(rows[i].device_id, device_id)}

\* every order the store may return the rows at positions `idx` in under
\* ORDER BY timestamp (rows of equal timestamp come in any order)
Orderings(rows, idx, descending) ==
    {f \in [1..Cardinality(idx) -> idx] :
        /\ \A j, k \in 1..Cardinality(idx) : j # k => f[j] # f[k]
        /\ \A j, k \in 1..Cardinality(idx) :
              j < k => IF descending
                         THEN TsLeq(rows[f[k]].timestamp, rows[f[j]].timestamp)
                         ELSE TsLeq(rows[f[j]].timestamp, rows[f[k]].timestamp)}

RowsAt(rows, f) == [j \in DOMAIN f |-> rows[f[j]]]

----------------------------------------------------------------------------
(* GET /api/data/:device_id                                                 *)

List(device_id) ==
    /\ proc = "up"
    /\ req' = [op |-> "list", device_id |-> device_id]
    /\ UNCHANGED <<users, sensor_data, now, proc>>
    /\ \E db \in StoreOutcomes :
          IF db # NoError
          THEN /\ res' = Response("list", 500, [error |-> "Failed to fetch data"])
               /\ logged' = <<"Database error:", db>>
          ELSE /\ \E f \in Orderings(sensor_data, DeviceRows(sensor_data, device_id), TRUE) :
                     res' = Response("list", 200, [rows |-> RowsAt(sensor_data, f)])
               /\ logged' = NoLog

----------------------------------------------------------------------------
(* GET /api/data/latest/:device_id                                          *)

\* ... ORDER BY timestamp DESC LIMIT 1: the first row of any valid ordering
LatestRows(rows, device_id) ==
    {f[1] : f \in {g \in Orderings(rows, DeviceRows(rows, device_id), TRUE) : DOMAIN g # {}}}

Latest(device_id) ==
    /\ proc = "up"
    /\ req' = [op |-> "latest", device_id |-> device_id]
    /\ UNCHANGED <<users, sensor_data, now, proc>>
    /\ \E db \in StoreOutcomes :
          IF db # NoError
          THEN /\ res' = Response("latest", 500, [error |-> "Failed to fetch latest data"])
               /\ logged' = <<"Database error:", db>>
          ELSE IF LatestRows(sensor_data, device_id) = {}
          THEN /\ res' = Response("latest", 404, [error |-> "No data available"])
               /\ logged' = NoLog
          ELSE /\ \E i \in LatestRows(sensor_data, device_id) :
                     res' = Response("latest", 200, [row |-> sensor_data[i]])
               /\ logged' = NoLog

----------------------------------------------------------------------------
(* GET /api/data/history/:device_id?date=                                   *)

StartDate(date) == SetUTCHours(NewDate(date), 0, 0, 0, 0)
EndDate(date) == SetUTCHours(NewDate(date), 23, 59, 59, 999)

\* WHERE device_id = $1 AND timestamp >= $2 AND timestamp <= $3
EndExclusive(rows, device_id, from, to) ==
    {i \in DeviceRows(rows, device_id) :
        /\ TsLeq(ParseTimestamp(from), rows[i].timestamp)
        /\ TsLt(rows[i].timestamp, ParseTimestamp(to))}

HistoryRows(rows, device_id, from, to) ==
    {i \in DeviceRows(rows, device_id) :
        /\ TsLeq(ParseTimestamp(from), rows[i].timestamp)
        /\ TsLeq(rows[i].timestamp, ParseTimestamp(to))}

History(device_id, date) ==
    /\ proc = "up"
    /\ req' = [op |-> "history", device_id |-> device_id, date |-> date]
    /\ UNCHANGED <<users, sensor_data, now, proc>>
    /\ IF date = Undefined
         THEN /\ res' = Response("history", 400, [error |-> "Date parameter is required"])
              /\ logged' = NoLog
         ELSE IF ~StartDate(date).valid
         THEN /\ res' = Response("history", 500, [error |-> "Failed to fetch historical data"])
              /\ logged' = <<"Database error:", "RangeError: Invalid time value">>
         ELSE \E db \in StoreOutcomes :
              IF db # NoError
              THEN /\ res' = Response("history", 500,
                                      [error |-> "Failed to fetch historical data"])
                   /\ logged' = <<"Database error:", db>>
              ELSE LET idx == HistoryRows(sensor_data, device_id,
                                          ToISOString(StartDate(date)),
                                          ToISOString(EndDate(date)))
                   IN  /\ logged' = NoLog
                       /\ IF idx = {}
                            THEN res' = Response("history", 200,
                                     [message |-> "No data available for the selected date."])
                            ELSE \E f \in Orderings(sensor_data, idx, FALSE) :
                                    res' = Response("history", 200,
                                                    [rows |-> RowsAt(sensor_data, f)])

----------------------------------------------------------------------------

SignupBodies == [email : EmailInputs \ {Undefined}, password : PasswordInputs, device_id : DeviceInputs]
LoginBodies == [email : EmailInputs, password : PasswordInputs]

Init ==
    /\ users = {}
    /\ sensor_data = <<>>
    /\ now = Instant(Dec31, MsPerDay - 1)
    /\ proc = "up"
    /\ req = NoRequest
    /\ res = NoResponse("none")
    /\ logged = NoLog

\* No handler reads or writes both tables: the routes on users and the
\* routes on sensor_data are also given as specifications of their own.
NextUsers ==
    \/ \E body \in SignupBodies : Signup(body)
    \/ \E body \in SignupBodies : Admin(body)
    \/ \E body \in LoginBodies : Login(body)

SpecUsers == Init /\ [][NextUsers]_vars

NextData ==
    \/ Tick
    \/ \E body \in IngestBodies : Ingest(body)
    \/ \E d \in PathDevices : List(d)
    \/ \E d \in PathDevices : Latest(d)
    \/ \E d \in PathDevices, date \in DateInputs : History(d, date)

SpecData == Init /\ [][NextData]_vars

Next == NextUsers \/ NextData

Spec == Init /\ [][Next]_vars

----------------------------------------------------------------------------
(* Properties.                                                              *)

\* the step just taken was the handling of a request of kind `op`
StepOf(op) == req'.op = op /\ now' = now

FailureDetails == StoreErrors \cup {BcryptError(p) : p \in PasswordInputs}

\* C1: after AdminUpsertUser(E, P, D) has succeeded, with E and P present,
\* every response Login(E, P) can give is a success carrying device_id D,
\* whatever other rows the store holds.
C1_LoginSymmetric ==
    (/\ req.op = "admin"
     /\ res.status = 200
     /\ Truthy(req.body.email)
     /\ Truthy(req.body.password))
    => \A r \in LoginResponses(users,
                               [email |-> req.body.email, password |-> req.body.password],
                               NoError) :
          r.status = 200 /\ r.body.device_id = req.body.device_id

\* C2: every request handled has been answered and the process is up.
C2_AlwaysAnswered ==
    /\ proc = "up"
    /\ req.op # "none" => res.status # 0

\* the values of a reading
Values(row) ==
    <<row.temperature, row.humidity, row.air_quality, row.lpg_level>>

\* the position of the reading of `device_id` ingested last
LastIngested(rows, device_id) ==
    CHOOSE i \in DeviceRows(rows, device_id) :
        \A j \in DeviceRows(rows, device_id) : j <= i

\* C3: LatestReading(D) answers with the values of the reading of D that was
\* ingested last.
C3_LatestIsLastIngested ==
    (req.op = "latest" /\ res.status = 200)
    => Values(res.body.row)
         = Values(sensor_data[LastIngested(sensor_data, req.device_id)])

\* password p verifies against none of the rows carrying email e
WrongPassword(e, p) ==
    \A r \in UsersByEmail(users, e) :
        ~(BcryptAccepts(p) /\ BcryptCompare(p, r.password))

\* C4: with the store answering, Login with an unknown email and Login with
\* a known email and a wrong password are answered alike: 401 with the body
\* "Invalid credentials", whichever of the two causes it was.
C4_FailuresIndistinguishable ==
    (/\ req.op = "login"
     /\ Truthy(req.body.email)
     /\ Truthy(req.body.password)
     /\ ~(logged # NoLog /\ logged[2] \in StoreErrors)
     /\ WrongPassword(req.body.email, req.body.password))
    => res = InvalidCredentials

\* the readings of device_id inside the UTC day of `date`, both ends included
InDay(rows, device_id, date) ==
    {i \in 1..Len(rows) :
        /\ rows[i].device_id = device_id
        /\ TsLeq(Instant(date, 0), rows[i].timestamp)
        /\ TsLeq(rows[i].timestamp, Instant(date, MsPerDay - 1))}

\* C5: a successful HistoryByDate(D, date) returns exactly the readings of D
\* with date 00:00:00.000Z <= timestamp <= date 23:59:59.999Z, each once, and
\* the no-data message when there is none.
C5_HistoryWindow ==
    (req.op = "history" /\ res.status = 200)
    => LET want == InDay(sensor_data, req.device_id, req.date)
       IN  IF want = {}
             THEN res.body = [message |-> "No data available for the selected date."]
             ELSE \E f \in [1..Cardinality(want) -> want] :
                     /\ \A j, k \in DOMAIN f : j # k => f[j] # f[k]
                     /\ res.body = [rows |-> RowsAt(sensor_data, f)]

\* an answer for 2024-01-01 that holds the reading of the day's last
\* millisecond while the table also holds one of the next millisecond
C5_Witness ==
    /\ req.op = "history"
    /\ res.status = 200
    /\ req.date = Jan1
    /\ Len(sensor_data) = 2
    /\ \A i \in 1..2 : sensor_data[i].device_id = req.device_id
    /\ sensor_data[1].timestamp = Instant(Jan1, MsPerDay - 1)
    /\ sensor_data[2].timestamp = Instant(Jan2, 0)
    /\ res.body = [rows |-> <<sensor_data[1]>>]

\* a body IngestReading must reject
Incomplete(body) == ~Truthy(body.device_id) \/ Absent(body) # {}

\* C6: IngestReading with an empty device_id or an absent numeric field
\* answers 400 and leaves sensor_data as it was; with everything present
\* (zero included) it appends the row, unless the store fails.
C6_IngestValidation ==
    [][StepOf("ingest") =>
         IF Incomplete(req'.body)
           THEN res'.status = 400 /\ sensor_data' = sensor_data
           ELSE \/ res'.status = 500 /\ sensor_data' = sensor_data
                \/ /\ res'.status = 201
                   /\ sensor_data' = Append(sensor_data, NewReading(req'.body, now))]_vars

\* a rejected ingest while the table holds a reading whose temperature is 0
C6_Witness ==
    /\ req.op = "ingest"
    /\ res.status = 400
    /\ Truthy(req.body.device_id)
    /\ Absent(req.body) # {}
    /\ Len(sensor_data) > 0
    /\ sensor_data[1].temperature = Num(0)

\* C7: a 500 response carries no detail of the failure; the detail is in
\* the log.
C7_GenericInternalError ==
    res.status = 500
    => /\ \A f \in DOMAIN res.body : res.body[f] \notin FailureDetails
       /\ logged # NoLog /\ logged[2] \in FailureDetails

\* no two rows of users carry the same device_id
UniqueDeviceId(rows) == \A a, b \in rows : a.device_id = b.device_id => a = b

\* the rows of devices other than device_id
Others(rows, device_id) == {r \in rows : r.device_id # device_id}

\* C8: users never holds two rows for one device_id; a successful
\* AdminUpsertUser(E, P, D) leaves the rows of other devices as they were
\* and leaves exactly one row for D, carrying E and a hash of P, adding a
\* row only when D had none; UpdateUserCredentials adds no row.
C8_UpsertKeyedOnDevice ==
    [][/\ UniqueDeviceId(users')
       /\ (StepOf("admin") /\ res'.status = 200) =>
            LET D == req'.body.device_id
            IN  /\ Others(users', D) = Others(users, D)
                /\ \E r \in users' :
                      /\ Matching(users', D) = {r}
                      /\ r.email = ToParam(req'.body.email)
                      /\ BcryptCompare(req'.body.password, r.password)
                /\ Cardinality(users') =
                      Cardinality(users) + (IF Matching(users, D) = {} THEN 1 ELSE 0)
       /\ StepOf("signup") =>
            /\ Others(users', req'.body.device_id) = Others(users, req'.body.device_id)
            /\ Cardinality(users') = Cardinality(users)]_vars

\* AdminUpsertUser has just overwritten or created a row whose email another
\* device's row carries too
C8_Witness ==
    /\ req.op = "admin"
    /\ res.status = 200
    /\ Cardinality(users) = 2
    /\ \A r \in users : r.email = req.body.email

\* C9: the password column of the row just written by UpdateUserCredentials
\* or AdminUpsertUser with plaintext P is not P, P verifies against it, and
\* no other plaintext does.
C9_HashedAtRest ==
    (req.op \in {"signup", "admin"} /\ res.status = 200)
    => \A r \in Matching(users, req.body.device_id) :
          /\ r.password # req.body.password
          /\ BcryptCompare(req.body.password, r.password)
          /\ \A q \in {p \in PasswordInputs : BcryptAccepts(p)} \ {req.body.password} :
                ~BcryptCompare(q, r.password)

\* C10: UpdateUserCredentials answers 400 to a missing or empty device_id
\* and 404 (or 500, when the store failed) to a device_id no row carries,
\* changing nothing; otherwise it changes the row of device_id only.
C10_UpdateNeverCreates ==
    [][StepOf("signup") =>
         LET D == req'.body.device_id
         IN  IF ~Truthy(D)
               THEN res'.status = 400 /\ users' = users
             ELSE IF Matching(users, D) = {}
               THEN /\ users' = users
                    /\ \/ res'.status = 404
                       \/ res'.status = 500 /\ logged'[2] \in StoreErrors
             ELSE /\ Others(users', D) = Others(users, D)
                  /\ Cardinality(users') = Cardinality(users)]_vars

====
